---- MODULE Spec2Model ----
(***************************************************************************)
(* AmbaLearn-Web front end (src/app.py): one browser session talking to    *)
(* the Flask process, which proxies every action to the backend.  A        *)
(* request is handled in steps: the handler's entry up to its first        *)
(* backend call, then one step per backend call (the call, and the code    *)
(* that follows it up to the next call or the reply).  render_template     *)
(* runs the context processor inject_global_data, whose two backend calls  *)
(* are steps of the same request.                                          *)
(***************************************************************************)
EXTENDS Integers, Sequences, FiniteSets, TLC

VARIABLES
    session,       \* the Flask session: a dict, key -> value
    pc,            \* "idle", the backend call the request in progress makes next,
                   \* or "reply": the reply is ready to be sent
    req,           \* the request being handled (or the last one handled)
    api,           \* cookie jar of the requests.Session the handler is using
    uid,           \* api_new_chat's local uid
    calls,         \* backend calls made for this request: <<[site, res, got]>>
    last,          \* the most recent backend call of this request, in full
    resp,          \* the reply to this request
    entered,       \* whether the route body ran (login_required let it through)
    received,      \* cookies the backend has set on `api` since it was created
    location,      \* the redirect the browser was last sent, if it was one
    hops,          \* redirects followed in a row to reach this request
    via,           \* the route whose redirect this request follows
    origin,        \* the route of the first request of the redirect chain
    course_seen,   \* course data the chain's last get_course_data returned
    stable         \* every get_course_data of the chain returned the same data

vars == <<session, pc, req, api, uid, calls, last, resp, entered, received,
          location, hops, via, origin, course_seen, stable>>

\* ------------------------------------------------------------------ bounds
MaxCookie == 2     \* cookie values 1..MaxCookie
MaxStepNo == 2     \* step numbers 1..MaxStepNo
MaxSteps  == 2     \* steps in a course
MaxUid    == 1     \* chat uids 1..MaxUid
MaxHops   == 5     \* redirects a browser follows in a row

\* ------------------------------------------------------------- cookie jars
CookieNames == {"session"}
\* a jar maps a cookie name to its value; 0: the jar has no such cookie
Jars     == [CookieNames -> 0..MaxCookie]
EmptyJar == [n \in CookieNames |-> 0]

\* RequestsCookieJar.update(other): other's cookies override, the rest stay
cookies_update(jar, other) ==
    [n \in CookieNames |-> IF other[n] # 0 THEN other[n] ELSE jar[n]]

\* RequestsCookieJar.get_dict()
get_dict(jar) == jar

\* ------------------------------------------------------------- the session
EmptySession == [k \in {} |-> 0]

session_set(s, k, v) == [x \in DOMAIN s \cup {k} |-> IF x = k THEN v ELSE s[x]]

\* variant: only the api_cookies key is dropped (session.pop)
session_clear_mut(s) == [x \in DOMAIN s \ {"api_cookies"} |-> s[x]]
\* session.clear()
session_clear(s) == EmptySession

\* variant: an access_token also passes the test
login_required_mut(s) == "api_cookies" \in DOMAIN s \/ "access_token" \in DOMAIN s
\* the decorator's test: the body runs iff 'api_cookies' in session
login_required(s) == "api_cookies" \in DOMAIN s

\* variant: the stored cookies are not loaded
get_api_session_mut(s) == EmptyJar
\* a new requests.Session, loaded with session['api_cookies'] when present
get_api_session(s) ==
    IF "api_cookies" \in DOMAIN s
    THEN cookies_update(EmptyJar, s["api_cookies"])
    ELSE EmptyJar

\* ---------------------------------------------------- the backend's answers
StatusCodes == {200, 201, 404, 500}

\* What one backend call comes to: a network exception, or a response with a
\* status code and the cookies its Set-Cookie headers carry.
Outcomes ==
    {[exc |-> TRUE, status |-> 0, set_cookie |-> EmptyJar]}
    \cup [exc : {FALSE}, status : StatusCodes, set_cookie : Jars]

\* Response.ok
ok(o) == ~o.exc /\ o.status < 400

\* Response.raise_for_status() raises HTTPError (a RequestException)
raise_for_status(o) == ~o.exc /\ o.status >= 400 /\ o.status < 600

\* the except RequestException branch is taken
raises(o) == o.exc \/ raise_for_status(o)

\* how the call ended, as the log keeps it
Res(o) == IF o.exc THEN "exc" ELSE IF o.status >= 400 THEN "http" ELSE "ok"

StepNos == 1..MaxStepNo
Uids    == 1..MaxUid
\* the 'steps' list of a course, as the list of its step_number fields
Courses == UNION {[1..n -> StepNos] : n \in 0..MaxSteps}
NoCourse == <<0>>

\* ------------------------------------------------------------------ replies
redirect(t, st, fl) ==
    [kind |-> "redirect", target |-> t, step |-> st, status |-> 302,
     error |-> FALSE, success |-> FALSE, flash |-> fl]

render_template(t, fl) ==
    [kind |-> "render", target |-> t, step |-> 0, status |-> 200,
     error |-> FALSE, success |-> FALSE, flash |-> fl]

jsonify(st, err, succ) ==
    [kind |-> "json", target |-> "none", step |-> 0, status |-> st,
     error |-> err, success |-> succ, flash |-> "none"]

Pending ==
    [kind |-> "pending", target |-> "none", step |-> 0, status |-> 0,
     error |-> FALSE, success |-> FALSE, flash |-> "none"]

NoCall == [site |-> "none", exc |-> FALSE, status |-> 0, set_cookie |-> EmptyJar,
           uid |-> 0, got |-> 0]

NoLocation == [target |-> "none", step |-> 0, from |-> "none"]

NoForm == [email |-> FALSE, username |-> FALSE, password |-> FALSE]

Request(route, method) ==
    [route |-> route, method |-> method, form |-> NoForm, topic |-> FALSE,
     message |-> FALSE, credential |-> FALSE, step |-> 0, uid |-> 0]

\* ------------------------------------------------------------ step helpers
\* A request arrives: typed by the user (follow = FALSE) or fetched by the
\* browser because the last reply was a redirect to it (follow = TRUE).
Start(r, follow) ==
    /\ pc = "idle"
    /\ req' = r
    /\ calls' = <<>>
    /\ last' = NoCall
    /\ uid' = 0
    /\ location' = NoLocation
    /\ IF follow
       THEN /\ location.target = r.route
            /\ location.step = r.step
            /\ r.method = "GET"
            /\ hops < MaxHops
            /\ hops' = hops + 1
            /\ via' = location.from
            /\ course_seen' = IF r.route \in {"lessons", "lesson_step"}
                              THEN course_seen ELSE NoCourse
            /\ UNCHANGED <<origin, stable>>
       ELSE /\ hops' = 0
            /\ via' = "none"
            /\ origin' = r.route
            /\ course_seen' = NoCourse
            /\ stable' = TRUE

\* the handler goes on to the backend call `site`, using a requests.Session
\* whose jar is `jar`
Goto(site, jar) ==
    /\ pc' = site
    /\ api' = jar
    /\ received' = EmptyJar
    /\ resp' = Pending

\* The backend call at `site` is made and ends as o.  sent: the uid in its
\* payload; got: the uid in the answer's JSON; jar: the cookies the answer set,
\* kept where the handler reads them back (login, register).
CallJ(site, o, sent, got, jar) ==
    /\ calls' = Append(calls, [site |-> site, res |-> Res(o), got |-> got])
    /\ last' = [site |-> site, exc |-> o.exc, status |-> o.status,
                set_cookie |-> jar, uid |-> sent, got |-> got]

Call(site, o, sent, got) == CallJ(site, o, sent, got, EmptyJar)

\* the same requests.Session goes on to the call `site`
Continue(site, o) ==
    /\ pc' = site
    /\ api' = cookies_update(api, o.set_cookie)
    /\ received' = cookies_update(received, o.set_cookie)

\* the view returns r with the session as s; render_template runs the context
\* processor, which calls the backend iff 'api_cookies' in session
Finish(r, s) ==
    /\ resp' = r
    /\ received' = EmptyJar
    /\ IF r.kind = "render" /\ "api_cookies" \in DOMAIN s
       THEN pc' = "ctx_me" /\ api' = get_api_session(s)
       ELSE pc' = "reply" /\ api' = EmptyJar

Done ==
    /\ pc' = "reply"
    /\ api' = EmptyJar
    /\ received' = EmptyJar

\* what a step leaves alone
Frame == UNCHANGED <<req, uid, entered, location, hops, via, origin, course_seen, stable>>
FrameC == UNCHANGED <<req, uid, entered, location, hops, via, origin>>
Keep == UNCHANGED session

\* login_required: the body runs, or the reply is a flash and a redirect to login
Protected(body) ==
    IF login_required(session)
    THEN entered' = TRUE /\ body
    ELSE /\ entered' = FALSE
         /\ Finish(redirect("login", 0, "error"), session)

\* ------------------------------------------------------------------- Init
Init ==
    /\ session = EmptySession
    /\ pc = "idle"
    /\ req = Request("none", "GET")
    /\ api = EmptyJar
    /\ uid = 0
    /\ calls = <<>>
    /\ last = NoCall
    /\ resp = Pending
    /\ entered = FALSE
    /\ received = EmptyJar
    /\ location = NoLocation
    /\ hops = 0
    /\ via = "none"
    /\ origin = "none"
    /\ course_seen = NoCourse
    /\ stable = TRUE

\* The reply is sent and the request is over: the handler's locals are gone,
\* the session stays, and a redirect leaves the browser a location to fetch.
send_reply ==
    /\ pc = "reply"
    /\ pc' = "idle"
    /\ req' = Request("none", "GET")
    /\ calls' = <<>>
    /\ last' = NoCall
    /\ resp' = Pending
    /\ uid' = 0
    /\ entered' = FALSE
    /\ IF resp.kind = "redirect"
       THEN /\ location' = [target |-> resp.target, step |-> resp.step,
                            from |-> req.route]
            /\ UNCHANGED <<hops, via, origin, course_seen, stable>>
       ELSE /\ location' = NoLocation
            /\ hops' = 0
            /\ via' = "none"
            /\ origin' = "none"
            /\ course_seen' = NoCourse
            /\ stable' = TRUE
    /\ UNCHANGED <<session, api, received>>

\* ------------------------------------------------ inject_global_data (43-65)
inject_global_data_me ==
    /\ pc = "ctx_me"
    /\ \E o \in Outcomes :
        /\ Call("ctx_me", o, 0, 0)
        /\ IF o.exc THEN Done ELSE Continue("ctx_list", o)
    /\ UNCHANGED resp
    /\ Frame /\ Keep

inject_global_data_list ==
    /\ pc = "ctx_list"
    /\ \E o \in Outcomes : Call("ctx_list", o, 0, 0)
    /\ Done
    /\ UNCHANGED resp
    /\ Frame /\ Keep

\* ------------------------------------------------------------ login (69-102)
\* variant: only the password is required
login_invalid_mut(form) == ~form.password
\* not password or (not email and not username)
login_invalid(form) == ~form.password \/ (~form.email /\ ~form.username)

\* if response.ok
login_success(o) == ok(o)

login ==
    \E method \in {"GET", "POST"}, follow \in BOOLEAN,
       form \in [email : BOOLEAN, username : BOOLEAN, password : BOOLEAN] :
        /\ method = "GET" => form = NoForm
        /\ Start([Request("login", method) EXCEPT !.form = form], follow)
        /\ entered' = TRUE
        /\ IF method = "POST" /\ login_invalid(form)
           THEN Finish(render_template("login.html", "error"), session)
           ELSE IF method = "POST"
           THEN Goto("login_post", EmptyJar)
           ELSE Finish(render_template("login.html", "none"), session)
        /\ Keep

login_post ==
    /\ pc = "login_post"
    /\ \E o \in Outcomes :
        /\ CallJ("login_post", o, 0, 0, o.set_cookie)
        /\ IF ~o.exc /\ login_success(o)
           THEN /\ session' = session_set(session, "api_cookies",
                                  get_dict(cookies_update(api, o.set_cookie)))
                /\ Finish(redirect("homepage", 0, "none"), session')
           ELSE /\ Keep
                /\ Finish(render_template("login.html", "error"), session)
    /\ Frame

\* -------------------------------------------------------- register (104-124)
\* variant: success is status 200
register_success_mut(o) == ~o.exc /\ o.status = 200
\* if response.status_code == 201
register_success(o) == ~o.exc /\ o.status = 201

register ==
    \E method \in {"GET", "POST"} :
        /\ Start(Request("register", method), FALSE)
        /\ entered' = TRUE
        /\ IF method = "POST"
           THEN Goto("register_post", EmptyJar)
           ELSE Finish(render_template("register.html", "none"), session)
        /\ Keep

register_post ==
    /\ pc = "register_post"
    /\ \E o \in Outcomes :
        /\ CallJ("register_post", o, 0, 0, o.set_cookie)
        /\ IF register_success(o)
           THEN /\ session' = session_set(session, "api_cookies",
                                  get_dict(cookies_update(api, o.set_cookie)))
                /\ Finish(redirect("homepage", 0, "none"), session')
           ELSE /\ Keep
                /\ Finish(render_template("register.html", "error"), session)
    /\ Frame

\* ---------------------------------------------------------- logout (126-137)
logout ==
    /\ Start(Request("logout", "GET"), FALSE)
    /\ entered' = TRUE
    /\ IF "api_cookies" \in DOMAIN session
       THEN Goto("logout_post", get_api_session(session)) /\ Keep
       ELSE /\ session' = session_clear(session)
            /\ Finish(redirect("login", 0, "success"), session')

logout_post ==
    /\ pc = "logout_post"
    /\ \E o \in Outcomes : Call("logout_post", o, 0, 0)
    /\ session' = session_clear(session)
    /\ Finish(redirect("login", 0, "success"), session')
    /\ Frame

\* ----------------------------------------------------------- index (141-143)
index ==
    /\ Start(Request("index", "GET"), FALSE)
    /\ entered' = TRUE
    /\ Finish(redirect("homepage", 0, "none"), session)
    /\ Keep

\* -------------------------------------------------------- homepage (145-149)
homepage ==
    \E follow \in BOOLEAN :
        /\ Start(Request("homepage", "GET"), follow)
        /\ Protected(Finish(render_template("homepage.html", "none"), session))
        /\ Keep

\* ------------------------------------------------------- chat_page (151-163)
\* variant: the redirect without the flash
chat_page_except_mut == redirect("homepage", 0, "none")
\* except RequestException: flash(..., "error"); redirect(url_for('homepage'))
chat_page_except == redirect("homepage", 0, "error")

chat_page ==
    /\ Start(Request("chat_page", "GET"), FALSE)
    /\ Protected(Goto("chat_page_get", get_api_session(session)))
    /\ Keep

chat_page_get ==
    /\ pc = "chat_page_get"
    /\ \E o \in Outcomes :
        /\ Call("chat_page_get", o, 0, 0)
        /\ IF raises(o)
           THEN Finish(chat_page_except, session)
           ELSE Finish(render_template("chat.html", "none"), session)
    /\ Frame /\ Keep

\* --------------------------------------------------------- courses (165-178)
courses ==
    \E follow \in BOOLEAN :
        /\ Start(Request("courses", "GET"), follow)
        /\ Protected(Goto("courses_get", get_api_session(session)))
        /\ Keep

courses_get ==
    /\ pc = "courses_get"
    /\ \E o \in Outcomes :
        /\ Call("courses_get", o, 0, 0)
        /\ IF raises(o)
           THEN Finish(render_template("courses.html", "error"), session)
           ELSE Finish(render_template("courses.html", "none"), session)
    /\ Frame /\ Keep

\* ------------------------------------------------- generate_course (180-194)
generate_course ==
    \E topic \in BOOLEAN :
        /\ Start([Request("generate_course", "POST") EXCEPT !.topic = topic], FALSE)
        /\ Protected(IF ~topic
                     THEN Finish(redirect("courses", 0, "error"), session)
                     ELSE Goto("generate_course_post", get_api_session(session)))
        /\ Keep

generate_course_post ==
    /\ pc = "generate_course_post"
    /\ \E o \in Outcomes :
        /\ Call("generate_course_post", o, 0, 0)
        /\ IF raises(o)
           THEN Finish(redirect("courses", 0, "error"), session)
           ELSE Finish(redirect("courses", 0, "success"), session)
    /\ Frame /\ Keep

\* -------------------------------------------------- get_course_data (34-41)
\* the course JSON, or None (found = FALSE) when the call raises
get_course_data(o, d) ==
    IF raises(o) THEN [found |-> FALSE, steps |-> <<>>]
                 ELSE [found |-> TRUE, steps |-> d]

\* what the backend can answer GET /course/<uid> with, given how the call ends
CourseAnswers(o) == IF raises(o) THEN {<<>>} ELSE Courses

\* The redirect chain's record of the course data it was served.  The data is
\* kept while the chain goes on between lessons and lesson_step (keep).
SeeCourse(c, keep) ==
    /\ stable' = (stable /\ (~c.found \/ course_seen = NoCourse \/ course_seen = c.steps))
    /\ course_seen' = IF keep THEN c.steps ELSE NoCourse

\* --------------------------------------------------------- lessons (196-212)
\* variant: the last step instead of the first
first_step_number_mut(steps) == steps[Len(steps)]
\* course_data['steps'][0]['step_number']
first_step_number(steps) == steps[1]

lessons ==
    \E follow \in BOOLEAN :
        /\ Start(Request("lessons", "GET"), follow)
        /\ Protected(Goto("lessons_course", get_api_session(session)))
        /\ Keep

lessons_course ==
    /\ pc = "lessons_course"
    /\ \E o \in Outcomes : \E d \in CourseAnswers(o) :
        LET course_data == get_course_data(o, d) IN
        /\ Call("lessons_course", o, 0, 0)
        /\ SeeCourse(course_data, course_data.found)
        /\ IF ~course_data.found \/ course_data.steps = <<>>
           THEN Finish(redirect("courses", 0, "error"), session)
           ELSE Finish(redirect("lesson_step",
                                first_step_number(course_data.steps), "none"), session)
    /\ FrameC /\ Keep

\* --------------------------------------------------- user_settings (214-225)
user_settings ==
    /\ Start(Request("user_settings", "GET"), FALSE)
    /\ Protected(Goto("user_settings_me", get_api_session(session)))
    /\ Keep

user_settings_me ==
    /\ pc = "user_settings_me"
    /\ \E o \in Outcomes : Call("user_settings_me", o, 0, 0)
    /\ Finish(render_template("user_settings.html", "none"), session)
    /\ Frame /\ Keep

\* ---------------------------------------------------- api_new_chat (229-248)
\* variant: raise_for_status() left out
api_new_chat_raises_mut(o) == o.exc
\* create_resp.raise_for_status() inside try ... except RequestException
api_new_chat_raises(o) == raises(o)

\* the 'uid' of the JSON answer to /create_session; 0: none (.get gives None)
UidAnswers(o) == IF o.exc THEN {0} ELSE 0..MaxUid

api_new_chat ==
    \E message \in BOOLEAN :
        /\ Start([Request("api_new_chat", "POST") EXCEPT !.message = message], FALSE)
        /\ Protected(IF ~message
                     THEN Finish(jsonify(400, TRUE, FALSE), session)
                     ELSE Goto("api_new_chat_create", get_api_session(session)))
        /\ Keep

api_new_chat_create ==
    /\ pc = "api_new_chat_create"
    /\ \E o \in Outcomes : \E got \in UidAnswers(o) :
        /\ Call("api_new_chat_create", o, 0, got)
        /\ IF api_new_chat_raises(o)
           THEN /\ Finish(jsonify(500, TRUE, FALSE), session)
                /\ UNCHANGED uid
           ELSE /\ uid' = got
                /\ Continue("api_new_chat_chat", o)
                /\ UNCHANGED resp
    /\ UNCHANGED <<req, entered, location, hops, via, origin, course_seen, stable>>
    /\ Keep

api_new_chat_chat ==
    /\ pc = "api_new_chat_chat"
    /\ \E o \in Outcomes :
        /\ Call("api_new_chat_chat", o, uid, 0)
        /\ IF raises(o)
           THEN Finish(jsonify(500, TRUE, FALSE), session)
           ELSE Finish(jsonify(200, FALSE, FALSE), session)
    /\ Frame /\ Keep

\* -------------------------------------------------------- api_chat (250-261)
\* variant: the backend's status is passed on
api_chat_except_mut(o) == jsonify(IF o.exc THEN 500 ELSE o.status, TRUE, FALSE)
\* return jsonify({"error": ...}), 500
api_chat_except(o) == jsonify(500, TRUE, FALSE)

api_chat ==
    \E u \in Uids :
        /\ Start([Request("api_chat", "POST") EXCEPT !.uid = u], FALSE)
        /\ Protected(Goto("api_chat_chat", get_api_session(session)))
        /\ Keep

api_chat_chat ==
    /\ pc = "api_chat_chat"
    /\ \E o \in Outcomes :
        /\ Call("api_chat_chat", o, req.uid, 0)
        /\ IF raises(o)
           THEN Finish(api_chat_except(o), session)
           ELSE Finish(jsonify(200, FALSE, FALSE), session)
    /\ Frame /\ Keep

\* ------------------------------------------------- api_course_chat (263-288)
api_course_chat ==
    \E method \in {"GET", "POST"}, n \in StepNos :
        /\ Start([Request("api_course_chat", method) EXCEPT !.step = n], FALSE)
        /\ Protected(IF method = "POST"
                     THEN Goto("api_course_chat_post", get_api_session(session))
                     ELSE Goto("api_course_chat_get", get_api_session(session)))
        /\ Keep

api_course_chat_post ==
    /\ pc = "api_course_chat_post"
    /\ \E o \in Outcomes :
        /\ Call("api_course_chat_post", o, 0, 0)
        /\ IF raises(o)
           THEN Finish(jsonify(500, TRUE, FALSE), session)
           ELSE Finish(jsonify(200, FALSE, FALSE), session)
    /\ Frame /\ Keep

api_course_chat_get ==
    /\ pc = "api_course_chat_get"
    /\ \E o \in Outcomes :
        /\ Call("api_course_chat_get", o, 0, 0)
        /\ IF raises(o)
           THEN Finish(jsonify(500, TRUE, FALSE), session)
           ELSE Finish(jsonify(200, FALSE, FALSE), session)
    /\ Frame /\ Keep

\* ----------------------------------------------------- lesson_step (290-336)
\* next((step for step in steps if step['step_number'] == step_number), None)
current_step(steps, n) ==
    IF \E i \in 1..Len(steps) : steps[i] = n
    THEN CHOOSE i \in 1..Len(steps) :
            steps[i] = n /\ \A j \in 1..(i - 1) : steps[j] # n
    ELSE 0

lesson_step ==
    \E follow \in BOOLEAN, n \in StepNos :
        /\ Start([Request("lesson_step", "GET") EXCEPT !.step = n], follow)
        /\ Protected(Goto("lesson_step_course", get_api_session(session)))
        /\ Keep

lesson_step_course ==
    /\ pc = "lesson_step_course"
    /\ \E o \in Outcomes : \E d \in CourseAnswers(o) :
        LET course_data == get_course_data(o, d) IN
        /\ Call("lesson_step_course", o, 0, 0)
        /\ SeeCourse(course_data, course_data.found
                                  /\ current_step(course_data.steps, req.step) = 0)
        /\ IF ~course_data.found
           THEN Finish(redirect("courses", 0, "error"), session)
           ELSE IF current_step(course_data.steps, req.step) = 0
           THEN Finish(redirect("lessons", 0, "error"), session)
           ELSE Continue("lesson_step_chat", o) /\ UNCHANGED resp
    /\ FrameC /\ Keep

lesson_step_chat ==
    /\ pc = "lesson_step_chat"
    /\ \E o \in Outcomes :
        /\ Call("lesson_step_chat", o, 0, 0)
        /\ IF o.exc
           THEN Finish(redirect("courses", 0, "error"), session)
           ELSE IF o.status = 200
           THEN Finish(render_template("lesson_chat.html", "none"), session)
           ELSE Finish(render_template("lesson_not_started.html", "none"), session)
    /\ Frame /\ Keep

\* ---------------------------------------------------- start_lesson (338-352)
start_lesson ==
    \E n \in StepNos :
        /\ Start([Request("start_lesson", "POST") EXCEPT !.step = n], FALSE)
        /\ Protected(Goto("start_lesson_post", get_api_session(session)))
        /\ Keep

start_lesson_post ==
    /\ pc = "start_lesson_post"
    /\ \E o \in Outcomes :
        /\ Call("start_lesson_post", o, 0, 0)
        /\ Finish(redirect("lesson_step", req.step,
                           IF raises(o) THEN "error" ELSE "none"), session)
    /\ Frame /\ Keep

\* ------------------------------------------------ calibrate_camera (354-375)
calibrate_camera ==
    /\ Start(Request("calibrate_camera", "GET"), FALSE)
    /\ Protected(Goto("calibrate_camera_course", get_api_session(session)))
    /\ Keep

calibrate_camera_course ==
    /\ pc = "calibrate_camera_course"
    /\ \E o \in Outcomes : \E d \in CourseAnswers(o) :
        LET course_data == get_course_data(o, d) IN
        /\ Call("calibrate_camera_course", o, 0, 0)
        /\ SeeCourse(course_data, FALSE)
        /\ IF ~course_data.found
           THEN Finish(redirect("courses", 0, "error"), session)
           ELSE Finish(render_template("calibrate.html", "none"), session)
    /\ FrameC /\ Keep

\* ------------------------------------------------------- take_exam (377-408)
take_exam ==
    /\ Start(Request("take_exam", "GET"), FALSE)
    /\ Protected(Goto("take_exam_course", get_api_session(session)))
    /\ Keep

take_exam_course ==
    /\ pc = "take_exam_course"
    /\ \E o \in Outcomes : \E d \in CourseAnswers(o) :
        LET course_data == get_course_data(o, d) IN
        /\ Call("take_exam_course", o, 0, 0)
        /\ SeeCourse(course_data, FALSE)
        /\ IF ~course_data.found
           THEN Finish(redirect("courses", 0, "error"), session)
           ELSE Continue("take_exam_exam", o) /\ UNCHANGED resp
    /\ FrameC /\ Keep

take_exam_exam ==
    /\ pc = "take_exam_exam"
    /\ \E o \in Outcomes :
        /\ Call("take_exam_exam", o, 0, 0)
        /\ IF o.exc
           THEN Finish(redirect("courses", 0, "error"), session)
           ELSE IF o.status = 200
           THEN Finish(render_template("exam.html", "none"), session)
           ELSE Finish(redirect("courses", 0, "info"), session)
    /\ Frame /\ Keep

\* ----------------------------------------------- submit_exam_proxy (420-434)
submit_exam_proxy ==
    /\ Start(Request("submit_exam_proxy", "POST"), FALSE)
    /\ Protected(Goto("submit_exam_proxy_post", get_api_session(session)))
    /\ Keep

submit_exam_proxy_post ==
    /\ pc = "submit_exam_proxy_post"
    /\ \E o \in Outcomes :
        /\ Call("submit_exam_proxy_post", o, 0, 0)
        /\ IF o.exc
           THEN Finish(jsonify(500, TRUE, FALSE), session)
           ELSE IF o.status = 200
           THEN Finish(jsonify(200, FALSE, FALSE), session)
           ELSE Finish(jsonify(o.status, TRUE, FALSE), session)
    /\ Frame /\ Keep

\* ------------------------------------------------------ exam_score (436-469)
exam_score ==
    /\ Start(Request("exam_score", "GET"), FALSE)
    /\ Protected(Goto("exam_score_course", get_api_session(session)))
    /\ Keep

exam_score_course ==
    /\ pc = "exam_score_course"
    /\ \E o \in Outcomes : \E d \in CourseAnswers(o) :
        LET course_data == get_course_data(o, d) IN
        /\ Call("exam_score_course", o, 0, 0)
        /\ SeeCourse(course_data, FALSE)
        /\ IF ~course_data.found
           THEN Finish(redirect("courses", 0, "error"), session)
           ELSE Continue("exam_score_me", o) /\ UNCHANGED resp
    /\ FrameC /\ Keep

exam_score_me ==
    /\ pc = "exam_score_me"
    /\ \E o \in Outcomes : Call("exam_score_me", o, 0, 0)
    /\ Finish(render_template("score.html", "none"), session)
    /\ Frame /\ Keep

\* ----------------------------------------------------- google_auth (471-498)
\* the fields the backend's JSON answer to /auth/google holds
GoogleBodies == SUBSET {"token", "user"}

google_auth ==
    \E credential \in BOOLEAN :
        /\ Start([Request("google_auth", "POST") EXCEPT !.credential = credential],
                 FALSE)
        /\ entered' = TRUE
        /\ IF ~credential
           THEN Finish(jsonify(400, TRUE, FALSE), session)
           ELSE Goto("google_auth_post", EmptyJar)
        /\ Keep

\* if resp.ok: session["access_token"] = data["token"]; session["user"] =
\* data["user"]; a missing key raises KeyError, caught by except Exception
google_auth_post ==
    /\ pc = "google_auth_post"
    /\ \E o \in Outcomes, body \in GoogleBodies :
        /\ Call("google_auth_post", o, 0, 0)
        /\ IF o.exc
           THEN /\ Finish(jsonify(500, TRUE, FALSE), session)
                /\ UNCHANGED session
           ELSE IF ~ok(o)
           THEN /\ Finish(jsonify(401, TRUE, FALSE), session)
                /\ UNCHANGED session
           ELSE IF "token" \notin body
           THEN /\ Finish(jsonify(500, TRUE, FALSE), session)
                /\ UNCHANGED session
           ELSE IF "user" \notin body
           THEN /\ session' = session_set(session, "access_token", 1)
                /\ Finish(jsonify(500, TRUE, FALSE), session')
           ELSE /\ session' = session_set(session_set(session, "access_token", 1),
                                          "user", 1)
                /\ Finish(jsonify(200, FALSE, TRUE), session')
    /\ Frame

Next ==
    \/ send_reply
    \/ inject_global_data_me
    \/ inject_global_data_list
    \/ login
    \/ login_post
    \/ register
    \/ register_post
    \/ logout
    \/ logout_post
    \/ index
    \/ homepage
    \/ chat_page
    \/ chat_page_get
    \/ courses
    \/ courses_get
    \/ generate_course
    \/ generate_course_post
    \/ lessons
    \/ lessons_course
    \/ user_settings
    \/ user_settings_me
    \/ api_new_chat
    \/ api_new_chat_create
    \/ api_new_chat_chat
    \/ api_chat
    \/ api_chat_chat
    \/ api_course_chat
    \/ api_course_chat_post
    \/ api_course_chat_get
    \/ lesson_step
    \/ lesson_step_course
    \/ lesson_step_chat
    \/ start_lesson
    \/ start_lesson_post
    \/ calibrate_camera
    \/ calibrate_camera_course
    \/ take_exam
    \/ take_exam_course
    \/ take_exam_exam
    \/ submit_exam_proxy
    \/ submit_exam_proxy_post
    \/ exam_score
    \/ exam_score_course
    \/ exam_score_me
    \/ google_auth
    \/ google_auth_post

Spec == Init /\ [][Next]_vars

\* =================================================================== claims
HasCookies(s) == "api_cookies" \in DOMAIN s
StoredCookies(s) == IF HasCookies(s) THEN s["api_cookies"] ELSE EmptyJar

\* the routes wrapped by @login_required
ProtectedRoutes ==
    {"homepage", "chat_page", "courses", "generate_course", "lessons",
     "user_settings", "api_new_chat", "api_chat", "api_course_chat", "lesson_step",
     "start_lesson", "calibrate_camera", "take_exam", "submit_exam_proxy",
     "exam_score"}

\* the calls made on a requests.Session() that loads no stored cookies
FreshSites == {"login_post", "register_post", "google_auth_post"}

InRequest == pc \notin {"idle", "reply"}
Is2xx(c) == ~c.exc /\ c.status >= 200 /\ c.status <= 299
ErrorVisible == resp.flash = "error" \/ (resp.kind = "json" /\ resp.error)
ToLogin == redirect("login", 0, "error")

\* C1: a request to a login_required route by a session without 'api_cookies'
\* is answered with a redirect to login, the route body does not run, and no
\* backend call is made for it.
C1_UnauthenticatedRedirected ==
    (req.route \in ProtectedRoutes /\ ~HasCookies(session)) =>
        /\ pc = "reply"
        /\ resp = ToLogin
        /\ ~entered
        /\ calls = <<>>

C1_Witness ==
    /\ pc = "reply"
    /\ req.route = "lesson_step"
    /\ "access_token" \in DOMAIN session
    /\ ~HasCookies(session)
    /\ resp = ToLogin

LoginStored ==
    /\ HasCookies(session)
    /\ session["api_cookies"] = last.set_cookie
    /\ resp = redirect("homepage", 0, "none")

HomeServed ==
    (pc = "reply" /\ req.route = "homepage" /\ HasCookies(session)) =>
        (entered /\ resp = render_template("homepage.html", "none"))

\* C2 as stated: any 2xx answer to a login POST or a register POST stores the
\* backend's cookies in session['api_cookies'] and redirects to the homepage.
C2_Any2xxStoresCookies ==
    (last.site \in {"login_post", "register_post"} /\ Is2xx(last)) => LoginStored

\* C2 amended: a 2xx answer to a login POST, or a 201 answer to a register
\* POST, stores the backend's cookies in session['api_cookies'] and redirects
\* to the homepage; any other answer to a register POST (200 included) is
\* flashed as an error on the register page.  A session holding api_cookies
\* is served /home, and it holds them until a logout request.
C2_LoginOr201StoresCookies ==
    /\ [](/\ (last.site = "login_post" /\ Is2xx(last)) => LoginStored
          /\ (last.site = "register_post" /\ ~last.exc /\ last.status = 201)
                => LoginStored
          /\ (last.site = "register_post" /\ (last.exc \/ last.status # 201))
                => resp = render_template("register.html", "error")
          /\ HomeServed)
    /\ [][(HasCookies(session) /\ ~HasCookies(session')) => req'.route = "logout"]_vars

C2_Witness ==
    /\ last.site = "register_post"
    /\ last.status = 201
    /\ HasCookies(session)
    /\ session["api_cookies"]["session"] = 2
    /\ resp.target = "homepage"

Failed(c) == c.res # "ok"

\* C3 as stated, for the calls the route handlers make themselves: whenever
\* such a backend call failed (an exception, or an answer that is not 2xx),
\* the reply carries a flashed error message or a JSON body with an 'error'
\* field.
C3_EveryFailureVisible ==
    (pc = "reply" /\ \E i \in 1..Len(calls) :
        Failed(calls[i]) /\ calls[i].site \notin {"ctx_me", "ctx_list"})
      => ErrorVisible

\* the failures the code does not report as an error
Swallowed(c) ==
    \/ c.site \in {"logout_post", "ctx_me", "ctx_list", "user_settings_me",
                   "exam_score_me"}
    \/ c.site \in {"lesson_step_chat", "take_exam_exam"} /\ c.res = "http"

\* C3 amended: a failed backend call is reported by a flashed error message or
\* a JSON 'error' field, except: the /logout call of logout, the /@me and
\* /list_sessions calls of the context processor, the /@me call of
\* user_settings and of exam_score, and a 4xx/5xx answer (not an exception) to
\* the step's chat GET in lesson_step and to the exam GET in take_exam.
C3_FailureVisibleUnlessSwallowed ==
    pc = "reply" =>
        \A i \in 1..Len(calls) :
            (Failed(calls[i]) /\ ~Swallowed(calls[i])) => ErrorVisible

C3_Witness ==
    /\ pc = "reply"
    /\ req.route = "chat_page"
    /\ calls = <<[site |-> "chat_page_get", res |-> "exc", got |-> 0]>>
    /\ resp = redirect("homepage", 0, "error")

JsonProxies == {"api_new_chat", "api_chat", "api_course_chat", "submit_exam_proxy"}
CallFailed(c) == c.site # "none" /\ (c.exc \/ ~Is2xx(c))

\* C4 as stated: the status of a JSON proxy's error reply is a constant of the
\* endpoint (500, the status each of them gives a network exception), whatever
\* status the backend returned.
C4_FixedErrorStatus ==
    (pc = "reply" /\ req.route \in JsonProxies /\ CallFailed(last)) =>
        (resp.kind = "json" /\ resp.error /\ resp.status = 500)

\* C4 amended: api_new_chat, api_chat and api_course_chat reply 500 to every
\* failed backend call; submit_exam_proxy replies 500 to a network exception
\* and otherwise repeats the backend's status code whenever it is not 200.
C4_FixedExceptSubmitExam ==
    (pc = "reply" /\ req.route \in JsonProxies /\ last.site # "none") =>
        /\ (req.route # "submit_exam_proxy" /\ CallFailed(last))
              => resp = jsonify(500, TRUE, FALSE)
        /\ (req.route = "submit_exam_proxy" /\ last.exc)
              => resp = jsonify(500, TRUE, FALSE)
        /\ (req.route = "submit_exam_proxy" /\ ~last.exc /\ last.status # 200)
              => resp = jsonify(last.status, TRUE, FALSE)

C4_Witness ==
    /\ pc = "reply"
    /\ req.route = "submit_exam_proxy"
    /\ last.status = 404
    /\ resp = jsonify(404, TRUE, FALSE)

LoginSucceeded ==
    \/ last.site = "login_post" /\ ~last.exc /\ last.status < 400
    \/ last.site = "register_post" /\ ~last.exc /\ last.status = 201

\* C5: after a logout request, whatever became of the backend /logout call,
\* the session holds no api_cookies, access_token or user and the reply is a
\* redirect to login; the backend /logout call is made only when the session
\* held api_cookies; and a session without api_cookies gets them only by a
\* successful login or registration, until when every request to a protected
\* route is redirected to login.
C5_LogoutClearsSession ==
    /\ []((pc = "reply" /\ req.route = "logout") =>
            (DOMAIN session = {} /\ resp = redirect("login", 0, "success")))
    /\ [][pc' = "logout_post" => HasCookies(session)]_vars
    /\ [][(req'.route = "logout" /\ ~HasCookies(session)) => calls' = <<>>]_vars
    /\ [][(~HasCookies(session) /\ HasCookies(session')) => LoginSucceeded']_vars
    /\ []((pc = "reply" /\ req.route \in ProtectedRoutes /\ ~HasCookies(session))
            => resp = ToLogin)

C5_Witness ==
    /\ pc = "reply"
    /\ req.route = "logout"
    /\ calls = <<[site |-> "logout_post", res |-> "exc", got |-> 0]>>
    /\ DOMAIN session = {}
    /\ resp.target = "login"

\* C6 as stated: every backend call made for a request of a session holding
\* api_cookies carries exactly the cookies stored in session['api_cookies'].
C6_CallsCarryStoredCookies ==
    (InRequest /\ HasCookies(session)) => api = session["api_cookies"]

CookieState(s) == <<HasCookies(s), StoredCookies(s)>>

\* C6 amended: the backend calls of login, register and google_auth carry no
\* cookies; every other backend call carries the cookies stored in
\* session['api_cookies'], overridden by the cookies the backend set in
\* earlier answers to the same requests.Session within the request.  The
\* stored value is the cookie set of the answer to the most recent successful
\* login or registration: only those write session['api_cookies'], and only
\* logout removes it.
C6_CallsCarryStoredOrFresh ==
    /\ []((InRequest /\ pc \in FreshSites) => api = EmptyJar)
    /\ []((InRequest /\ pc \notin FreshSites) =>
            api = cookies_update(StoredCookies(session), received))
    /\ []((last.site \in {"login_post", "register_post"} /\ LoginSucceeded) =>
            (HasCookies(session) /\ session["api_cookies"] = last.set_cookie))
    /\ [][CookieState(session') # CookieState(session) =>
            \/ LoginSucceeded'
            \/ req'.route = "logout" /\ ~HasCookies(session')]_vars

C6_Witness ==
    /\ pc = "api_new_chat_chat"
    /\ HasCookies(session)
    /\ session["api_cookies"]["session"] = 1
    /\ api["session"] = 2

\* C7: when the backend answers /auth/google with success and google_auth
\* replies {"success": true}, the session holds the backend's cookies, so it
\* counts as logged in.
C7_GoogleAuthLogsIn ==
    (last.site = "google_auth_post" /\ resp.kind = "json" /\ resp.success)
        => HasCookies(session)

Sites(cs) == [i \in 1..Len(cs) |-> cs[i].site]

\* C8: api_new_chat issues POST /create_session at most once and POST /chat at
\* most once, /chat only after /create_session answered 2xx and with the uid
\* of that answer; if /create_session fails the reply is a 500 JSON error and
\* /chat is not issued; without a message neither is issued and the reply is
\* 400.
C8_NewChatOrdered ==
    (req.route = "api_new_chat" /\ entered) =>
        /\ Sites(calls) \in {<<>>, <<"api_new_chat_create">>,
                             <<"api_new_chat_create", "api_new_chat_chat">>}
        /\ pc = "api_new_chat_chat" => (Len(calls) = 1 /\ calls[1].res = "ok")
        /\ Len(calls) = 2 =>
              (calls[1].res = "ok" /\ last.uid = calls[1].got /\ pc = "reply")
        /\ (Len(calls) >= 1 /\ calls[1].res # "ok") =>
              (Len(calls) = 1 /\ pc = "reply" /\ resp = jsonify(500, TRUE, FALSE))
        /\ ~req.message =>
              (calls = <<>> /\ pc = "reply" /\ resp = jsonify(400, TRUE, FALSE))
        /\ req.message => pc # "idle" /\ (pc = "reply" => calls # <<>>)

C8_Witness ==
    /\ pc = "reply"
    /\ req.route = "api_new_chat"
    /\ Len(calls) = 2
    /\ calls[1].got = 1
    /\ last.uid = 1
    /\ resp = jsonify(200, FALSE, FALSE)

InvalidForm(f) == ~f.password \/ (~f.email /\ ~f.username)
InvalidLoginPost == req.route = "login" /\ req.method = "POST" /\ InvalidForm(req.form)

\* C9 as stated (second sentence): a login POST with no password, or with
\* neither email nor username, makes no backend call at all.
C9_InvalidLoginNoCall ==
    InvalidLoginPost => calls = <<>>

\* C9 amended: a login or register POST that does not succeed leaves the
\* session as it was.  A login POST with no password, or with neither email
\* nor username, makes no call to the backend's /login; the only backend calls
\* of such a request are the context processor's /@me and /list_sessions,
\* made while login.html is rendered when the session holds api_cookies, and
\* none for a session without them.
C9_FailedLoginKeepsSession ==
    /\ [][(req'.route \in {"login", "register"} /\ session' # session)
            => LoginSucceeded']_vars
    /\ [](InvalidLoginPost =>
            /\ pc # "login_post"
            /\ resp = render_template("login.html", "error")
            /\ \A i \in 1..Len(calls) : calls[i].site \in {"ctx_me", "ctx_list"}
            /\ ~HasCookies(session) => calls = <<>>)

C9_Witness ==
    /\ pc = "reply"
    /\ InvalidLoginPost
    /\ req.form.password
    /\ HasCookies(session)
    /\ Len(calls) = 2

LessonPages ==
    {render_template("lesson_chat.html", "none"),
     render_template("lesson_not_started.html", "none"),
     redirect("courses", 0, "error")}

\* C10: with the course data unchanged between the requests of a redirect
\* chain (stable): lessons, for a course with at least one step, redirects to
\* lesson_step for steps[0].step_number; the lesson_step request that follows
\* renders lesson_chat or lesson_not_started or redirects to courses, never
\* back to lessons; and a chain that starts at lesson_step sees at most three
\* redirects (the first one and two more), the third one to courses, whose
\* page is rendered.
C10_NoRedirectCycle ==
    /\ (pc = "reply" /\ req.route = "lessons" /\ entered
            /\ course_seen \notin {NoCourse, <<>>})
          => resp = redirect("lesson_step", course_seen[1], "none")
    /\ (pc = "reply" /\ req.route = "lesson_step" /\ entered /\ via = "lessons"
            /\ stable)
          => resp \in LessonPages
    /\ (origin = "lesson_step" /\ stable) =>
          /\ hops <= 3
          /\ (hops = 3 /\ pc # "idle") => req.route = "courses"
          /\ (hops = 3 /\ pc = "reply") => resp.kind = "render"

C10_Witness ==
    /\ pc = "reply"
    /\ origin = "lesson_step"
    /\ stable
    /\ hops = 2
    /\ req.route = "lesson_step"
    /\ req.step = 2
    /\ via = "lessons"
    /\ resp = render_template("lesson_not_started.html", "none")

====
